---- MODULE Spec2Model ----
(***************************************************************************)
(* pdf-sentinel: static analysis of a parsed PDF object graph              *)
(* (src/main.rs).  The detectors, the stream decoding, the statistics      *)
(* pass and the severity score are modelled as operators computed the way  *)
(* the code computes them; main, analyze_pdf and analyze_multiple_pdfs are *)
(* modelled as state machines over them.                                   *)
(*                                                                         *)
(* Text is a sequence of one-character strings.  A byte that is not valid  *)
(* UTF-8 is the token BadByte.  Compressed stream content is a sequence of *)
(* DEFLATE symbols (literal, back-reference copy, end of stream).  A       *)
(* regular expression is a sequence of tokens: the flag group "(?i)", the  *)
(* parentheses, the alternation bar and literal characters.  A character   *)
(* outside ASCII is one token named by its code point.                     *)
(***************************************************************************)
EXTENDS Integers, Sequences, FiniteSets, TLC

VARIABLES
    config,      \* the Config in use (main.rs:45, parameter of analyze_pdf)
    file,        \* the Document the file would parse to (main.rs:46-48)
    doc,         \* the loaded Document, EmptyDoc before the load
    pc,          \* position in main / analyze_pdf
    result,      \* the AnalysisResult being filled (main.rs:72)
    ran,         \* the detector steps that have run on the document
    panicAt,     \* the position at which an unwrap panicked, "" if none
    peak,        \* largest decompressed buffer allocated so far (main.rs:116,259)
    namesWriter, \* the step that last wrote result.suspicious_names, "" if none
    report,      \* what print_analysis_result derived: severity tier, verdict
    files,       \* analyze_multiple_pdfs: the batch, one entry per file
    tasks,       \* analyze_multiple_pdfs: per file "todo" | "done" | "panicked"
    collected,   \* analyze_multiple_pdfs: per file, the result its task produced
    returned     \* analyze_multiple_pdfs: what the caller got back

vars == <<config, file, doc, pc, result, ran, panicAt, peak, namesWriter, report,
          files, tasks, collected, returned>>

(***************************************************************************)
(* Bounds of the model.                                                    *)
(***************************************************************************)
\* object ids range over 1..MaxId; a document holds any subset of them
MaxId == 2
\* number of files in a batch
MaxFiles == 3

(***************************************************************************)
(* Text helpers.                                                           *)
(***************************************************************************)
Uppers == <<"A","B","C","D","E","F","G","H","I","J","K","L","M",
            "N","O","P","Q","R","S","T","U","V","W","X","Y","Z">>
Lowers == <<"a","b","c","d","e","f","g","h","i","j","k","l","m",
            "n","o","p","q","r","s","t","u","v","w","x","y","z">>

\* the two characters outside ASCII that Unicode simple case folding puts in
\* the class of an ASCII letter: LATIN SMALL LETTER LONG S and KELVIN SIGN
LongS == "U+017F"
KelvinSign == "U+212A"

\* Unicode simple case folding outside ASCII, <<character, representative of
\* its class>>, for the alphabet of the model: ASCII, the Latin-1 letters,
\* the Greek letters, and the characters folding into these
FoldPairs ==
    << <<"U+00C0","U+00E0">>, <<"U+00C1","U+00E1">>, <<"U+00C2","U+00E2">>, <<"U+00C3","U+00E3">>,
       <<"U+00C4","U+00E4">>, <<"U+00C5","U+00E5">>, <<"U+00C6","U+00E6">>, <<"U+00C7","U+00E7">>,
       <<"U+00C8","U+00E8">>, <<"U+00C9","U+00E9">>, <<"U+00CA","U+00EA">>, <<"U+00CB","U+00EB">>,
       <<"U+00CC","U+00EC">>, <<"U+00CD","U+00ED">>, <<"U+00CE","U+00EE">>, <<"U+00CF","U+00EF">>,
       <<"U+00D0","U+00F0">>, <<"U+00D1","U+00F1">>, <<"U+00D2","U+00F2">>, <<"U+00D3","U+00F3">>,
       <<"U+00D4","U+00F4">>, <<"U+00D5","U+00F5">>, <<"U+00D6","U+00F6">>, <<"U+00D8","U+00F8">>,
       <<"U+00D9","U+00F9">>, <<"U+00DA","U+00FA">>, <<"U+00DB","U+00FB">>, <<"U+00DC","U+00FC">>,
       <<"U+00DD","U+00FD">>, <<"U+00DE","U+00FE">>, <<"U+0391","U+03B1">>, <<"U+0392","U+03B2">>,
       <<"U+0393","U+03B3">>, <<"U+0394","U+03B4">>, <<"U+0395","U+03B5">>, <<"U+0396","U+03B6">>,
       <<"U+0397","U+03B7">>, <<"U+0398","U+03B8">>, <<"U+0399","U+03B9">>, <<"U+039A","U+03BA">>,
       <<"U+039B","U+03BB">>, <<"U+039C","U+03BC">>, <<"U+039D","U+03BD">>, <<"U+039E","U+03BE">>,
       <<"U+039F","U+03BF">>, <<"U+03A0","U+03C0">>, <<"U+03A1","U+03C1">>, <<"U+03A3","U+03C3">>,
       <<"U+03A4","U+03C4">>, <<"U+03A5","U+03C5">>, <<"U+03A6","U+03C6">>, <<"U+03A7","U+03C7">>,
       <<"U+03A8","U+03C8">>, <<"U+03A9","U+03C9">>, <<"U+0178","U+00FF">>, <<"U+00B5","U+03BC">>,
       <<"U+03C2","U+03C3">>, <<"U+212B","U+00E5">>, <<LongS,"s">>, <<KelvinSign,"k">>,
       <<"U+1E9E","U+00DF">>, <<"U+2126","U+03C9">>, <<"U+0345","U+03B9">>, <<"U+1FBE","U+03B9">>,
       <<"U+03D0","U+03B2">>, <<"U+03D1","U+03B8">>, <<"U+03D5","U+03C6">>, <<"U+03D6","U+03C0">>,
       <<"U+03F0","U+03BA">>, <<"U+03F1","U+03C1">>, <<"U+03F4","U+03B8">>, <<"U+03F5","U+03B5">> >>

FoldTable ==
    [c \in {FoldPairs[i][1] : i \in 1..Len(FoldPairs)} |->
        FoldPairs[CHOOSE i \in 1..Len(FoldPairs) : FoldPairs[i][1] = c][2]]

\* Unicode simple case folding of one character, as the regex (?i) flag
\* applies it: the representative of the character's class
FoldChar(c) ==
    IF \E i \in 1..Len(Uppers) : Uppers[i] = c
    THEN Lowers[CHOOSE i \in 1..Len(Uppers) : Uppers[i] = c]
    ELSE IF c \in DOMAIN FoldTable THEN FoldTable[c]
    ELSE c

\* one pattern character against one text character
CharMatches(p, c) == IF p.ci THEN FoldChar(p.ch) = FoldChar(c) ELSE p.ch = c

\* the literal occurs in the text as a contiguous run (the empty literal
\* occurs everywhere)
Occurs(lit, text) ==
    \E i \in 0..(Len(text) - Len(lit)) :
        \A j \in 1..Len(lit) : CharMatches(lit[j], text[i + j])

\* a byte that is no valid UTF-8
BadByte == "\\xFF"
\* U+FFFD, what from_utf8_lossy puts in place of an invalid byte
Replacement == "U+FFFD"

\* str::from_utf8: Err on any invalid byte, else the text unchanged
from_utf8(bytes) ==
    IF \E i \in 1..Len(bytes) : bytes[i] = BadByte
    THEN [ok |-> FALSE, text |-> <<>>]
    ELSE [ok |-> TRUE, text |-> bytes]

\* String::from_utf8_lossy: invalid bytes become U+FFFD
from_utf8_lossy(bytes) ==
    [i \in 1..Len(bytes) |-> IF bytes[i] = BadByte THEN Replacement ELSE bytes[i]]

(***************************************************************************)
(* Regex: Vec<String>::join("|"), Regex::new, Regex::is_match.             *)
(* The patterns of this program are alternations of literals, possibly     *)
(* grouped and flagged (?i); that fragment of the syntax is modelled.      *)
(***************************************************************************)
RECURSIVE join(_, _)
join(frags, sep) ==
    IF Len(frags) = 0 THEN <<>>
    ELSE IF Len(frags) = 1 THEN frags[1]
    ELSE frags[1] \o sep \o join(Tail(frags), sep)

\* nesting depth after each prefix of the pattern
RECURSIVE Depth(_, _)
Depth(pat, n) ==
    IF n = 0 THEN 0
    ELSE Depth(pat, n - 1)
         + (IF pat[n] = "(" THEN 1 ELSE IF pat[n] = ")" THEN -1 ELSE 0)

\* Regex::new(..) is Ok iff the parentheses balance
RegexValid(pat) ==
    /\ \A n \in 0..Len(pat) : Depth(pat, n) >= 0
    /\ Depth(pat, Len(pat)) = 0

\* the (?i) flag in force at each token: a flag holds from where it stands
\* to the end of the group it stands in, across the bars of that group
RECURSIVE Flagged(_, _, _, _)
Flagged(pat, i, ci, saved) ==
    IF i > Len(pat) THEN <<>>
    ELSE IF pat[i] = "(?i)" THEN Flagged(pat, i + 1, TRUE, saved)
    ELSE IF pat[i] = "("
         THEN << [ch |-> "(", ci |-> ci] >> \o Flagged(pat, i + 1, ci, <<ci>> \o saved)
    ELSE IF pat[i] = ")"
         THEN << [ch |-> ")", ci |-> ci] >>
              \o Flagged(pat, i + 1, Head(saved), Tail(saved))
    ELSE << [ch |-> pat[i], ci |-> ci] >> \o Flagged(pat, i + 1, ci, saved)

\* nesting depth of the flagged tokens after the first n of them
RECURSIVE FDepth(_, _)
FDepth(toks, n) ==
    IF n = 0 THEN 0
    ELSE FDepth(toks, n - 1)
         + (IF toks[n].ch = "(" THEN 1 ELSE IF toks[n].ch = ")" THEN -1 ELSE 0)

\* the index of the parenthesis closing the group that opens at token 1
Closing(toks) ==
    CHOOSE m \in 1..Len(toks) :
        /\ FDepth(toks, m) = 0
        /\ \A n \in 1..(m - 1) : FDepth(toks, n) > 0

\* the index of the first bar outside every group, 0 if there is none
FirstBar(toks) ==
    IF \E m \in 1..Len(toks) : toks[m].ch = "|" /\ FDepth(toks, m) = 0
    THEN CHOOSE m \in 1..Len(toks) :
            /\ toks[m].ch = "|" /\ FDepth(toks, m) = 0
            /\ \A n \in 1..(m - 1) : ~(toks[n].ch = "|" /\ FDepth(toks, n) = 0)
    ELSE 0

\* the literals the expression matches: an alternation is the union of its
\* branches, a branch is the concatenation of its characters and groups
RECURSIVE Lang(_)
RECURSIVE LangConcat(_)
Lang(toks) ==
    IF FirstBar(toks) = 0 THEN LangConcat(toks)
    ELSE LangConcat(SubSeq(toks, 1, FirstBar(toks) - 1))
         \cup Lang(SubSeq(toks, FirstBar(toks) + 1, Len(toks)))

LangConcat(toks) ==
    IF Len(toks) = 0 THEN { <<>> }
    ELSE IF toks[1].ch = "("
         THEN {u \o w : u \in Lang(SubSeq(toks, 2, Closing(toks) - 1)),
                        w \in LangConcat(SubSeq(toks, Closing(toks) + 1, Len(toks)))}
    ELSE {<<toks[1]>> \o w : w \in LangConcat(Tail(toks))}

\* Regex::new: Ok(regex) or Err
RegexNew(pat) ==
    IF RegexValid(pat)
    THEN [ok |-> TRUE, alts |-> Lang(Flagged(pat, 1, FALSE, <<>>))]
    ELSE [ok |-> FALSE, alts |-> {}]

\* Regex::is_match: some literal of the expression occurs somewhere in the text
is_match(re, text) == \E lit \in re.alts : Occurs(lit, text)

(***************************************************************************)
(* flate2::read::ZlibDecoder + read_to_end.  The compressed content is a   *)
(* sequence of DEFLATE symbols.  read_to_end appends what it inflates to   *)
(* the buffer; it is Ok at the end symbol and also when the input ends     *)
(* before the stream does (the reader then returns Ok(0)); it is Err on    *)
(* data that is no valid DEFLATE (a reserved block type, an invalid code). *)
(* The decoder inflates a whole 32 KiB window before it hands bytes to     *)
(* read, so of a stream that inflates to less than one window, as every    *)
(* stream here does, a failed read_to_end leaves nothing in the buffer.    *)
(* A copy that reaches before the start of the output reads zero bytes     *)
(* from the window.                                                        *)
(***************************************************************************)
Lit(c) == [op |-> "lit", byte |-> c, dist |-> 0, len |-> 0]
Copy(d, n) == [op |-> "copy", byte |-> "", dist |-> d, len |-> n]
EndOfStream == [op |-> "end", byte |-> "", dist |-> 0, len |-> 0]
Invalid == [op |-> "invalid", byte |-> "", dist |-> 0, len |-> 0]

\* the zero byte of the decoder's fresh window
ZeroByte == "\\0"

\* the literal-only encoding of a text
Deflate(text) == [i \in 1..Len(text) |-> Lit(text[i])] \o <<EndOfStream>>

\* an LZ77 copy: n bytes, each taken dist bytes back in the growing output
RECURSIVE CopyBytes(_, _, _)
CopyBytes(out, dist, n) ==
    IF n = 0 THEN out
    ELSE CopyBytes(Append(out, IF Len(out) - dist + 1 >= 1
                               THEN out[Len(out) - dist + 1]
                               ELSE ZeroByte),
                   dist, n - 1)

RECURSIVE Inflate(_, _, _)
Inflate(toks, i, out) ==
    IF i > Len(toks) THEN [ok |-> TRUE, data |-> out]
    ELSE IF toks[i].op = "end" THEN [ok |-> TRUE, data |-> out]
    ELSE IF toks[i].op = "lit" THEN Inflate(toks, i + 1, Append(out, toks[i].byte))
    ELSE IF toks[i].op = "copy"
         THEN Inflate(toks, i + 1, CopyBytes(out, toks[i].dist, toks[i].len))
    ELSE [ok |-> FALSE, data |-> <<>>]

\* decoder.read_to_end(&mut decompressed): ok, and the buffer it filled
read_to_end(content) == Inflate(content, 1, <<>>)

(***************************************************************************)
(* lopdf::Object and lopdf::Dictionary.                                    *)
(***************************************************************************)
Null == [kind |-> "Null", dict |-> <<>>, content |-> <<>>, bytes |-> <<>>, ref |-> 0]
Name(b) == [kind |-> "Name", dict |-> <<>>, content |-> <<>>, bytes |-> b, ref |-> 0]
Str(b) == [kind |-> "String", dict |-> <<>>, content |-> <<>>, bytes |-> b, ref |-> 0]
Reference(id) == [kind |-> "Reference", dict |-> <<>>, content |-> <<>>, bytes |-> <<>>, ref |-> id]
Dictionary(d) == [kind |-> "Dictionary", dict |-> d, content |-> <<>>, bytes |-> <<>>, ref |-> 0]
Stream(d, c) == [kind |-> "Stream", dict |-> d, content |-> c, bytes |-> <<>>, ref |-> 0]
Entry(k, v) == [key |-> k, val |-> v]

\* Object::as_dict is Ok for the Dictionary variant only, Object::as_stream for
\* the Stream variant only, as_name for Name, as_string for String
as_dict(o) == [ok |-> o.kind = "Dictionary", dict |-> o.dict]
as_stream(o) == [ok |-> o.kind = "Stream", stream |-> o]
as_name(o) == [ok |-> o.kind = "Name", name |-> o.bytes]
as_string(o) == [ok |-> o.kind = "String", bytes |-> o.bytes]

\* Dictionary::has and Dictionary::get
has(d, k) == \E i \in 1..Len(d) : d[i].key = k
get(d, k) ==
    IF has(d, k)
    THEN [ok |-> TRUE, val |-> d[CHOOSE i \in 1..Len(d) : d[i].key = k].val]
    ELSE [ok |-> FALSE, val |-> Null]

FlateDecode == <<"F","l","a","t","e","D","e","c","o","d","e">>
LZWDecode == <<"L","Z","W","D","e","c","o","d","e">>

\* Stream::filter: the name under the stream dictionary's Filter key
filter(s) ==
    IF get(s.dict, "Filter").ok /\ as_name(get(s.dict, "Filter").val).ok
    THEN [ok |-> TRUE, name |-> as_name(get(s.dict, "Filter").val).name]
    ELSE [ok |-> FALSE, name |-> <<>>]

(***************************************************************************)
(* Config and load_config.                                                 *)
(***************************************************************************)
DefaultConfig ==
    [file_size_threshold |-> 10 * 1024 * 1024,
     suspicious_patterns |->
        << <<"(?i)","e","v","a","l">>,
           <<"(?i)","e","x","e","c">>,
           <<"(?i)","s","p","a","w","n">>,
           <<"(?i)","s","h","e","l","l">> >>,
     suspicious_metadata_patterns |->
        << <<"(?i)","(","a","d","o","b","e","|","m","i","c","r","o","s","o","f","t","|","o","f","f","i","c","e",")">> >>]

load_config == DefaultConfig

\* both pattern lists empty
EmptyConfig ==
    [DefaultConfig EXCEPT !.suspicious_patterns = <<>>,
                          !.suspicious_metadata_patterns = <<>>]

\* a suspicious_patterns entry with an unclosed group
BadNamesConfig ==
    [DefaultConfig EXCEPT !.suspicious_patterns =
        << <<"(?i)","e","v","a","l">>, <<"(?i)","(","e","x","e","c">> >>]

\* a suspicious_metadata_patterns entry with an unclosed group
BadMetaConfig ==
    [DefaultConfig EXCEPT !.suspicious_metadata_patterns =
        << <<"(?i)","(","a","d","o","b","e","|","o","f","f","i","c","e">> >>]

Configs == {load_config, EmptyConfig, BadNamesConfig, BadMetaConfig}

NamesPattern(c) == join(c.suspicious_patterns, <<"|">>)
MetaPattern(c) == join(c.suspicious_metadata_patterns, <<"|">>)

(***************************************************************************)
(* Documents.  doc.objects is a BTreeMap: a function from the ids present  *)
(* to objects, iterated in ascending id order.                             *)
(***************************************************************************)
\* size the decompressed output of one pool stream exceeds
MaxOutputSize == 8

T_alert == <<"a","l","e","r","t","(","'","x","'",")">>
T_shell == <<LongS,"h","e","l","l">>
T_plain == <<"h","i">>
T_evalBad == <<"E","v","A","L",BadByte>>
T_JavaScript == <<"J","a","v","a","S","c","r","i","p","t">>
T_Action == <<"A","c","t","i","o","n">>
T_Font == <<"F","o","n","t">>
T_Adobe == <<"A","d","o","b","e"," ","P","D","F">>
T_Acme == <<"A","c","m","e">>

DictJS == Dictionary(<<Entry("JS", Str(T_alert))>>)
DictAA == Dictionary(<<Entry("OpenAction", Reference(1))>>)
DictAction == Dictionary(<<Entry("Type", Name(T_Action)), Entry("S", Name(T_JavaScript))>>)
DictObjStm == Dictionary(<<Entry("ObjStm", Null)>>)
DictOCG == Dictionary(<<Entry("Type", Name(T_Font)), Entry("OCGs", Null)>>)
DictInfo == Dictionary(<<Entry("Producer", Str(T_Acme))>>)
StreamJSFlate ==
    Stream(<<Entry("JS", Null), Entry("Filter", Name(FlateDecode))>>, Deflate(T_alert))
StreamJSLzw ==
    Stream(<<Entry("JavaScript", Null), Entry("Filter", Name(LZWDecode))>>, Deflate(T_alert))
StreamEval ==
    Stream(<<Entry("Filter", Name(FlateDecode))>>, Deflate(T_evalBad))
StreamBomb ==
    Stream(<<Entry("Filter", Name(FlateDecode))>>,
           <<Lit("a"), Copy(1, 2 * MaxOutputSize), EndOfStream>>)
\* the data ends before the stream does, after a copy from before the output
StreamTruncated ==
    Stream(<<Entry("Filter", Name(FlateDecode))>>, <<Lit("e"), Lit("v"), Copy(3, 3)>>)
\* the data is no valid DEFLATE after two literals
StreamCorrupt ==
    Stream(<<Entry("Filter", Name(FlateDecode))>>,
           <<Lit("e"), Lit("v"), Lit("a"), Lit("l"), Invalid>>)
NameShell == Name(T_shell)
StringPlain == Str(T_plain)

ObjectPool ==
    {DictJS, DictAA, DictAction, DictObjStm, DictOCG, DictInfo,
     StreamJSFlate, StreamJSLzw, StreamEval, StreamBomb, StreamTruncated,
     StreamCorrupt,
     NameShell, StringPlain}

TrailerNoInfo == <<Entry("Root", Reference(1))>>
TrailerInfoRef == <<Entry("Root", Reference(2)), Entry("Info", Reference(1))>>
TrailerInfoGood ==
    <<Entry("Info", Dictionary(<<Entry("Producer", Str(T_Adobe)), Entry("Trapped", Name(T_Font))>>))>>
TrailerInfoMixed ==
    <<Entry("Info", Dictionary(<<Entry("Producer", Str(T_Adobe)), Entry("Author", Str(T_Acme))>>))>>
Trailers == {TrailerNoInfo, TrailerInfoRef, TrailerInfoGood, TrailerInfoMixed}

Sizes == {10 * 1024 * 1024, 10 * 1024 * 1024 + 1}

ObjectMaps == UNION {[D -> ObjectPool] : D \in SUBSET (1..MaxId)}

Documents ==
    {[objects |-> m, trailer |-> t, size |-> z] :
        m \in ObjectMaps, t \in Trailers, z \in Sizes}

EmptyDoc == [objects |-> <<>>, trailer |-> <<>>, size |-> 0]

\* the ids of the map in ascending order (BTreeMap iteration order)
RECURSIVE IdsFrom(_, _)
IdsFrom(m, k) ==
    IF k > MaxId + 1 THEN <<>>
    ELSE (IF k \in DOMAIN m THEN <<k>> ELSE <<>>) \o IdsFrom(m, k + 1)
Ids(d) == IdsFrom(d.objects, 1)

\* the contributions of the objects, joined in ascending id order
RECURSIVE Concat(_)
Concat(ss) == IF Len(ss) = 0 THEN <<>> ELSE ss[1] \o Concat(Tail(ss))

Max(a, b) == IF a >= b THEN a ELSE b

RECURSIVE MaxOf(_)
MaxOf(ns) == IF Len(ns) = 0 THEN 0 ELSE Max(ns[1], MaxOf(Tail(ns)))

(***************************************************************************)
(* The detectors.                                                          *)
(***************************************************************************)
HasScriptKey(dict) == has(dict, "JS") \/ has(dict, "JavaScript")

check_for_javascript(d) ==
    \E id \in DOMAIN d.objects :
        LET object == d.objects[id] IN
        IF as_dict(object).ok
        THEN \/ has(as_dict(object).dict, "JS")
             \/ has(as_dict(object).dict, "JavaScript")
             \/ /\ get(as_dict(object).dict, "S").ok
                /\ as_name(get(as_dict(object).dict, "S").val).ok
                /\ as_name(get(as_dict(object).dict, "S").val).name = T_JavaScript
        ELSE FALSE

\* the object reaches the decoder in find_javascript_objects: both casts, the
\* key test and the filter test succeed (main.rs:110-114)
JsReachesDecoder(object) ==
    /\ as_dict(object).ok
    /\ HasScriptKey(as_dict(object).dict)
    /\ as_stream(object).ok
    /\ filter(as_stream(object).stream).ok
    /\ filter(as_stream(object).stream).name = FlateDecode

find_javascript_objects(d) ==
    LET One(id) ==
            LET object == d.objects[id] IN
            IF /\ JsReachesDecoder(object)
               /\ read_to_end(object.content).ok
               /\ from_utf8(read_to_end(object.content).data).ok
            THEN << [id |-> id,
                     content |-> from_utf8(read_to_end(object.content).data).text] >>
            ELSE <<>>
    IN Concat([i \in 1..Len(Ids(d)) |-> One(Ids(d)[i])])

check_for_auto_action(d) ==
    \E id \in DOMAIN d.objects :
        LET object == d.objects[id] IN
        IF as_dict(object).ok
        THEN has(as_dict(object).dict, "AA") \/ has(as_dict(object).dict, "OpenAction")
        ELSE FALSE

check_for_obj_stm(d) ==
    \E id \in DOMAIN d.objects :
        LET object == d.objects[id] IN
        IF as_dict(object).ok THEN has(as_dict(object).dict, "ObjStm") ELSE FALSE

\* the caller has unwrapped Regex::new(join("|")) into re
SuspiciousNamesWith(d, re) ==
    LET One(id) ==
            LET obj == d.objects[id] IN
            IF obj.kind \in {"Name", "String"} /\ is_match(re, from_utf8_lossy(obj.bytes))
            THEN << from_utf8_lossy(obj.bytes) >>
            ELSE <<>>
    IN Concat([i \in 1..Len(Ids(d)) |-> One(Ids(d)[i])])

check_for_suspicious_names(d, c) ==
    SuspiciousNamesWith(d, RegexNew(NamesPattern(c)))

check_for_hidden_content(d) ==
    \E id \in DOMAIN d.objects :
        LET obj == d.objects[id] IN
        IF as_dict(obj).ok
        THEN has(as_dict(obj).dict, "OCG") \/ has(as_dict(obj).dict, "OCGs")
        ELSE FALSE

\* variant: a document exactly at the threshold counts as large
check_file_size_inclusive(d, c) == d.size >= c.file_size_threshold

check_file_size(d, c) == d.size > c.file_size_threshold

check_metadata(d, c) ==
    LET re == RegexNew(MetaPattern(c))
        info == get(d.trailer, "Info")
    IN  IF info.ok /\ as_dict(info.val).ok
        THEN \E i \in 1..Len(as_dict(info.val).dict) :
                LET value == as_dict(info.val).dict[i].val IN
                IF as_string(value).ok
                THEN ~is_match(re, from_utf8_lossy(as_string(value).bytes))
                ELSE FALSE
        ELSE FALSE

common_types ==
    { <<"C","a","t","a","l","o","g">>, <<"P","a","g","e","s">>, <<"P","a","g","e">>,
      <<"F","o","n","t">>, <<"X","O","b","j","e","c","t">>,
      <<"M","e","t","a","d","a","t","a">> }

check_for_unusual_objects(d) ==
    LET One(id) ==
            LET obj == d.objects[id] IN
            IF /\ as_dict(obj).ok
               /\ get(as_dict(obj).dict, "Type").ok
               /\ as_name(get(as_dict(obj).dict, "Type").val).ok
               /\ as_name(get(as_dict(obj).dict, "Type").val).name \notin common_types
            THEN << from_utf8_lossy(as_name(get(as_dict(obj).dict, "Type").val).name) >>
            ELSE <<>>
    IN Concat([i \in 1..Len(Ids(d)) |-> One(Ids(d)[i])])

Count(S) == Cardinality(S)

\* variant: only the JavaScript key counts as a scripting key
calculate_object_statistics_one_key(d) ==
    [total_objects |-> Count(DOMAIN d.objects),
     stream_objects |-> Count({id \in DOMAIN d.objects : as_stream(d.objects[id]).ok}),
     js_objects |->
        Count({id \in DOMAIN d.objects :
                 as_dict(d.objects[id]).ok /\ has(as_dict(d.objects[id]).dict, "JavaScript")}),
     obj_stm_objects |->
        Count({id \in DOMAIN d.objects :
                 as_dict(d.objects[id]).ok /\ has(as_dict(d.objects[id]).dict, "ObjStm")})]

calculate_object_statistics(d) ==
    [total_objects |-> Count(DOMAIN d.objects),
     stream_objects |-> Count({id \in DOMAIN d.objects : as_stream(d.objects[id]).ok}),
     js_objects |->
        Count({id \in DOMAIN d.objects :
                 as_dict(d.objects[id]).ok /\ HasScriptKey(as_dict(d.objects[id]).dict)}),
     obj_stm_objects |->
        Count({id \in DOMAIN d.objects :
                 as_dict(d.objects[id]).ok /\ has(as_dict(d.objects[id]).dict, "ObjStm")})]

\* the object reaches the decoder in analyze_streams (main.rs:255-257)
StreamReachesDecoder(object) ==
    /\ as_stream(object).ok
    /\ filter(as_stream(object).stream).ok
    /\ filter(as_stream(object).stream).name = FlateDecode

SuspiciousStreamFinding == <<"Suspicious content in stream">>

\* what analyze_streams pushes onto result.suspicious_names
StreamFindingsWith(d, re) ==
    LET One(id) ==
            LET object == d.objects[id] IN
            IF /\ StreamReachesDecoder(object)
               /\ read_to_end(object.content).ok
               /\ is_match(re, from_utf8_lossy(read_to_end(object.content).data))
            THEN << SuspiciousStreamFinding >>
            ELSE <<>>
    IN Concat([i \in 1..Len(Ids(d)) |-> One(Ids(d)[i])])

analyze_streams(d, c, names) ==
    names \o StreamFindingsWith(d, RegexNew(NamesPattern(c)))

\* sizes of the buffers `decompressed` filled by each of the two decoding loops
JsDecodedSizes(d) ==
    LET One(id) ==
            IF JsReachesDecoder(d.objects[id])
            THEN << Len(read_to_end(d.objects[id].content).data) >>
            ELSE <<>>
    IN Concat([i \in 1..Len(Ids(d)) |-> One(Ids(d)[i])])

StreamDecodedSizes(d) ==
    LET One(id) ==
            IF StreamReachesDecoder(d.objects[id])
            THEN << Len(read_to_end(d.objects[id].content).data) >>
            ELSE <<>>
    IN Concat([i \in 1..Len(Ids(d)) |-> One(Ids(d)[i])])

\* variant: the script-bearing object count enters the score unweighted
calculate_severity_score_unweighted(r) ==
    (IF r.has_javascript THEN 3 ELSE 0)
    + (IF r.has_auto_action THEN 2 ELSE 0)
    + (IF r.has_obj_stm THEN 2 ELSE 0)
    + Len(r.suspicious_names)
    + (IF r.hidden_content THEN 2 ELSE 0)
    + (IF r.large_file_size THEN 1 ELSE 0)
    + (IF r.suspicious_metadata THEN 2 ELSE 0)
    + Len(r.unusual_objects)
    + r.object_statistics.js_objects
    + r.object_statistics.obj_stm_objects

calculate_severity_score(r) ==
    (IF r.has_javascript THEN 3 ELSE 0)
    + (IF r.has_auto_action THEN 2 ELSE 0)
    + (IF r.has_obj_stm THEN 2 ELSE 0)
    + Len(r.suspicious_names)
    + (IF r.hidden_content THEN 2 ELSE 0)
    + (IF r.large_file_size THEN 1 ELSE 0)
    + (IF r.suspicious_metadata THEN 2 ELSE 0)
    + Len(r.unusual_objects)
    + r.object_statistics.js_objects * 2
    + r.object_statistics.obj_stm_objects

\* print_analysis_result: the tier and the verdict
Severity(score) ==
    IF score <= 2 THEN "Low"
    ELSE IF score <= 5 THEN "Medium"
    ELSE IF score <= 10 THEN "High"
    ELSE "Critical"

Assessment(score) ==
    IF score > 0 THEN "Potentially malicious" ELSE "Likely benign"

(***************************************************************************)
(* analyze_pdf: the result starts as AnalysisResult::default() and each    *)
(* line of analyze_pdf writes one field of it.                             *)
(***************************************************************************)
AnalysisResultDefault ==
    [has_javascript |-> FALSE, has_auto_action |-> FALSE, has_obj_stm |-> FALSE,
     suspicious_names |-> <<>>, hidden_content |-> FALSE, large_file_size |-> FALSE,
     suspicious_metadata |-> FALSE, unusual_objects |-> <<>>,
     object_statistics |-> [total_objects |-> 0, stream_objects |-> 0,
                            js_objects |-> 0, obj_stm_objects |-> 0],
     severity_score |-> 0, javascript_objects |-> <<>>]

Set_check_for_javascript(res, d, c) ==
    [res EXCEPT !.has_javascript = check_for_javascript(d)]

Set_find_javascript_objects(res, d, c) ==
    [res EXCEPT !.javascript_objects = find_javascript_objects(d)]

Set_check_for_auto_action(res, d, c) ==
    [res EXCEPT !.has_auto_action = check_for_auto_action(d)]

Set_check_for_obj_stm(res, d, c) ==
    [res EXCEPT !.has_obj_stm = check_for_obj_stm(d)]

Set_check_for_suspicious_names(res, d, c) ==
    [res EXCEPT !.suspicious_names = check_for_suspicious_names(d, c)]

Set_check_for_hidden_content(res, d, c) ==
    [res EXCEPT !.hidden_content = check_for_hidden_content(d)]

Set_check_file_size(res, d, c) ==
    [res EXCEPT !.large_file_size = check_file_size(d, c)]

Set_check_metadata(res, d, c) ==
    [res EXCEPT !.suspicious_metadata = check_metadata(d, c)]

Set_check_for_unusual_objects(res, d, c) ==
    [res EXCEPT !.unusual_objects = check_for_unusual_objects(d)]

Set_calculate_object_statistics(res, d, c) ==
    [res EXCEPT !.object_statistics = calculate_object_statistics(d)]

Set_analyze_streams(res, d, c) ==
    [res EXCEPT !.suspicious_names = analyze_streams(d, c, res.suspicious_names)]

\* the detector lines of analyze_pdf in the order of the code
DetectorSteps ==
    << "check_for_javascript",
       "find_javascript_objects",
       "check_for_auto_action",
       "check_for_obj_stm",
       "check_for_suspicious_names",
       "check_for_hidden_content",
       "check_file_size",
       "check_metadata",
       "check_for_unusual_objects",
       "calculate_object_statistics",
       "analyze_streams" >>

DetectorSet == {DetectorSteps[i] : i \in 1..Len(DetectorSteps)}

Apply(step, res, d, c) ==
    CASE step = "check_for_javascript" -> Set_check_for_javascript(res, d, c)
      [] step = "find_javascript_objects" -> Set_find_javascript_objects(res, d, c)
      [] step = "check_for_auto_action" -> Set_check_for_auto_action(res, d, c)
      [] step = "check_for_obj_stm" -> Set_check_for_obj_stm(res, d, c)
      [] step = "check_for_suspicious_names" -> Set_check_for_suspicious_names(res, d, c)
      [] step = "check_for_hidden_content" -> Set_check_for_hidden_content(res, d, c)
      [] step = "check_file_size" -> Set_check_file_size(res, d, c)
      [] step = "check_metadata" -> Set_check_metadata(res, d, c)
      [] step = "check_for_unusual_objects" -> Set_check_for_unusual_objects(res, d, c)
      [] step = "calculate_object_statistics" -> Set_calculate_object_statistics(res, d, c)
      [] step = "analyze_streams" -> Set_analyze_streams(res, d, c)

\* the step unwraps a Regex::new that failed
Panics(step, c) ==
    \/ step \in {"check_for_suspicious_names", "analyze_streams"}
          /\ ~RegexNew(NamesPattern(c)).ok
    \/ step = "check_metadata" /\ ~RegexNew(MetaPattern(c)).ok

\* the step writes result.suspicious_names
WritesNames(step) == step \in {"check_for_suspicious_names", "analyze_streams"}

\* the buffers the step decompresses into
DecodedSizes(step, d) ==
    IF step = "find_javascript_objects" THEN JsDecodedSizes(d)
    ELSE IF step = "analyze_streams" THEN StreamDecodedSizes(d)
    ELSE <<>>

RECURSIVE ApplyFrom(_, _, _, _)
ApplyFrom(k, res, d, c) ==
    IF k > Len(DetectorSteps) THEN res
    ELSE ApplyFrom(k + 1, Apply(DetectorSteps[k], res, d, c), d, c)

\* analyze_pdf as a function of a document and a configuration whose patterns compile
analyze_pdf(d, c) ==
    LET filled == ApplyFrom(1, AnalysisResultDefault, d, c)
    IN  [filled EXCEPT !.severity_score = calculate_severity_score(filled)]

(***************************************************************************)
(* main: load_config, load the document, analyze_pdf line by line, print.  *)
(***************************************************************************)
NoConfig ==
    [file_size_threshold |-> 0, suspicious_patterns |-> <<>>,
     suspicious_metadata_patterns |-> <<>>]
NoReport == [severity |-> "", assessment |-> ""]
NotReturned == [status |-> "pending", pairs |-> <<>>]

batchVars == <<files, tasks, collected, returned>>

NoBatch ==
    /\ files = <<>>
    /\ tasks = <<>>
    /\ collected = <<>>
    /\ returned = NotReturned

Init ==
    /\ config = NoConfig
    /\ file \in Documents
    /\ doc = EmptyDoc
    /\ pc = "load_config"
    /\ result = AnalysisResultDefault
    /\ ran = {}
    /\ panicAt = ""
    /\ peak = 0
    /\ namesWriter = ""
    /\ report = NoReport
    /\ NoBatch

\* main.rs:45; the configuration is the default or whatever a file supplies
LoadConfig ==
    /\ pc = "load_config"
    /\ \E c \in Configs : config' = c
    /\ pc' = "load_document"
    /\ UNCHANGED <<file, doc, result, ran, panicAt, peak, namesWriter, report>>
    /\ UNCHANGED batchVars

\* main.rs:46-48, the load succeeds
LoadDocument ==
    /\ pc = "load_document"
    /\ doc' = file
    /\ pc' = DetectorSteps[1]
    /\ UNCHANGED <<config, file, result, ran, panicAt, peak, namesWriter, report>>
    /\ UNCHANGED batchVars

\* main.rs:46-48, File::open or Document::load_from fails and main returns Err
LoadFails ==
    /\ pc = "load_document"
    /\ pc' = "error"
    /\ UNCHANGED <<config, file, doc, result, ran, panicAt, peak, namesWriter, report>>
    /\ UNCHANGED batchVars

\* what one detector line of analyze_pdf does to the result
Effect(step) ==
    /\ result' = Apply(step, result, doc, config)
    /\ ran' = ran \cup {step}
    /\ peak' = Max(peak, MaxOf(DecodedSizes(step, doc)))
    /\ namesWriter' = IF WritesNames(step) THEN step ELSE namesWriter
    /\ UNCHANGED <<config, file, doc, panicAt, report>>
    /\ UNCHANGED batchVars

\* the line panics on a pattern that does not compile, else takes effect and
\* control moves to the next line
Line(step, next) ==
    IF Panics(step, config)
    THEN /\ pc' = "panic"
         /\ panicAt' = step
         /\ UNCHANGED <<config, file, doc, result, ran, peak, namesWriter, report>>
         /\ UNCHANGED batchVars
    ELSE /\ Effect(step)
         /\ pc' = next

\* main.rs:74
CheckForJavascript ==
    /\ pc = "check_for_javascript"
    /\ Line("check_for_javascript", "find_javascript_objects")

\* main.rs:75
FindJavascriptObjects ==
    /\ pc = "find_javascript_objects"
    /\ Line("find_javascript_objects", "check_for_auto_action")

\* main.rs:76
CheckForAutoAction ==
    /\ pc = "check_for_auto_action"
    /\ Line("check_for_auto_action", "check_for_obj_stm")

\* main.rs:77
CheckForObjStm ==
    /\ pc = "check_for_obj_stm"
    /\ Line("check_for_obj_stm", "check_for_suspicious_names")

\* main.rs:78
CheckForSuspiciousNames ==
    /\ pc = "check_for_suspicious_names"
    /\ Line("check_for_suspicious_names", "check_for_hidden_content")

\* main.rs:79
CheckForHiddenContent ==
    /\ pc = "check_for_hidden_content"
    /\ Line("check_for_hidden_content", "check_file_size")

\* main.rs:80
CheckFileSize ==
    /\ pc = "check_file_size"
    /\ Line("check_file_size", "check_metadata")

\* main.rs:81
CheckMetadata ==
    /\ pc = "check_metadata"
    /\ Line("check_metadata", "check_for_unusual_objects")

\* main.rs:82
CheckForUnusualObjects ==
    /\ pc = "check_for_unusual_objects"
    /\ Line("check_for_unusual_objects", "calculate_object_statistics")

\* main.rs:83
CalculateObjectStatistics ==
    /\ pc = "calculate_object_statistics"
    /\ Line("calculate_object_statistics", "analyze_streams")

\* main.rs:85
AnalyzeStreams ==
    /\ pc = "analyze_streams"
    /\ Line("analyze_streams", "calculate_severity_score")

\* main.rs:87
CalculateSeverityScore ==
    /\ pc = "calculate_severity_score"
    /\ result' = [result EXCEPT !.severity_score = calculate_severity_score(result)]
    /\ pc' = "print_analysis_result"
    /\ UNCHANGED <<config, file, doc, ran, panicAt, peak, namesWriter, report>>
    /\ UNCHANGED batchVars

\* main.rs:52
PrintAnalysisResult ==
    /\ pc = "print_analysis_result"
    /\ report' = [severity |-> Severity(result.severity_score),
                  assessment |-> Assessment(result.severity_score)]
    /\ pc' = "done"
    /\ UNCHANGED <<config, file, doc, result, ran, panicAt, peak, namesWriter>>
    /\ UNCHANGED batchVars

Next ==
    \/ LoadConfig
    \/ LoadDocument
    \/ LoadFails
    \/ CheckForJavascript
    \/ FindJavascriptObjects
    \/ CheckForAutoAction
    \/ CheckForObjStm
    \/ CheckForSuspiciousNames
    \/ CheckForHiddenContent
    \/ CheckFileSize
    \/ CheckMetadata
    \/ CheckForUnusualObjects
    \/ CalculateObjectStatistics
    \/ AnalyzeStreams
    \/ CalculateSeverityScore
    \/ PrintAnalysisResult

Spec == Init /\ [][Next]_vars

(***************************************************************************)
(* The detector lines of analyze_pdf run in any order, the scoring line    *)
(* after all of them (the barrier of the aggregation step).                *)
(***************************************************************************)
AnyOrderPool == {NameShell, StreamEval, DictAction}

AnyOrderDocuments ==
    {[objects |-> m, trailer |-> TrailerInfoMixed, size |-> 10 * 1024 * 1024 + 1] :
        m \in UNION {[D -> AnyOrderPool] : D \in SUBSET (1..MaxId)}}

InitAnyOrder ==
    /\ config = DefaultConfig
    /\ file \in AnyOrderDocuments
    /\ doc = file
    /\ pc = "detectors"
    /\ result = AnalysisResultDefault
    /\ ran = {}
    /\ panicAt = ""
    /\ peak = 0
    /\ namesWriter = ""
    /\ report = NoReport
    /\ NoBatch

RunDetector ==
    /\ pc = "detectors"
    /\ \E step \in DetectorSet \ ran : Effect(step)
    /\ UNCHANGED pc

ScoreAfterBarrier ==
    /\ pc = "detectors"
    /\ ran = DetectorSet
    /\ result' = [result EXCEPT !.severity_score = calculate_severity_score(result)]
    /\ pc' = "done"
    /\ UNCHANGED <<config, file, doc, ran, panicAt, peak, namesWriter, report>>
    /\ UNCHANGED batchVars

NextAnyOrder == RunDetector \/ ScoreAfterBarrier

SpecAnyOrder == InitAnyOrder /\ [][NextAnyOrder]_vars

(***************************************************************************)
(* analyze_multiple_pdfs: one task per file on the rayon pool, each        *)
(* Document::load(file).unwrap() then analyze_pdf; a panic of any task is  *)
(* resumed in the caller, which then gets no collection back.              *)
(***************************************************************************)
BatchDocJs ==
    [objects |-> <<DictJS, DictAA>>, trailer |-> TrailerNoInfo, size |-> 10 * 1024 * 1024]
BatchDocPlain ==
    [objects |-> <<StringPlain>>, trailer |-> TrailerInfoGood, size |-> 10 * 1024 * 1024]

\* a file of the batch: its name and what Document::load makes of it
BatchFiles ==
    { [name |-> "bad.pdf", loadable |-> FALSE, doc |-> EmptyDoc],
      [name |-> "js.pdf", loadable |-> TRUE, doc |-> BatchDocJs],
      [name |-> "plain.pdf", loadable |-> TRUE, doc |-> BatchDocPlain] }

InitBatch ==
    /\ config = DefaultConfig
    /\ file = EmptyDoc
    /\ doc = EmptyDoc
    /\ pc = "analyze_multiple_pdfs"
    /\ result = AnalysisResultDefault
    /\ ran = {}
    /\ panicAt = ""
    /\ peak = 0
    /\ namesWriter = ""
    /\ report = NoReport
    /\ \E n \in 1..MaxFiles : files \in [1..n -> BatchFiles]
    /\ tasks = [i \in 1..Len(files) |-> "todo"]
    /\ collected = [i \in 1..Len(files) |-> AnalysisResultDefault]
    /\ returned = NotReturned

mainVars == <<config, file, doc, pc, result, ran, panicAt, peak, namesWriter, report>>

\* the closure of the map on file i succeeds (main.rs:358-360)
BatchTaskOk(i) ==
    /\ returned.status = "pending"
    /\ tasks[i] = "todo"
    /\ files[i].loadable
    /\ collected' = [collected EXCEPT ![i] = analyze_pdf(files[i].doc, config)]
    /\ tasks' = [tasks EXCEPT ![i] = "done"]
    /\ UNCHANGED <<files, returned>>
    /\ UNCHANGED mainVars

\* Document::load(file) fails and unwrap panics (main.rs:358)
BatchTaskPanics(i) ==
    /\ returned.status = "pending"
    /\ tasks[i] = "todo"
    /\ ~files[i].loadable
    /\ tasks' = [tasks EXCEPT ![i] = "panicked"]
    /\ UNCHANGED <<files, collected, returned>>
    /\ UNCHANGED mainVars

\* collect() hands the pairs back, in file order (main.rs:362)
BatchReturns ==
    /\ returned.status = "pending"
    /\ \A i \in 1..Len(files) : tasks[i] = "done"
    /\ returned' = [status |-> "ok",
                    pairs |-> [i \in 1..Len(files) |->
                                 [file |-> files[i].name, result |-> collected[i]]]]
    /\ UNCHANGED <<files, tasks, collected>>
    /\ UNCHANGED mainVars

\* a task panicked: the pool resumes the panic in the caller once the tasks
\* in flight are over, whether or not the remaining ones were started
BatchUnwinds ==
    /\ returned.status = "pending"
    /\ \E i \in 1..Len(files) : tasks[i] = "panicked"
    /\ returned' = [status |-> "panic", pairs |-> <<>>]
    /\ UNCHANGED <<files, tasks, collected>>
    /\ UNCHANGED mainVars

NextBatch ==
    \/ \E i \in 1..Len(files) : BatchTaskOk(i)
    \/ \E i \in 1..Len(files) : BatchTaskPanics(i)
    \/ BatchReturns
    \/ BatchUnwinds

SpecBatch == InitBatch /\ [][NextBatch]_vars

(***************************************************************************)
(* Properties.                                                             *)
(***************************************************************************)
B(b) == IF b THEN 1 ELSE 0

Scored == pc \in {"print_analysis_result", "done"}

\* C1: once analyze_pdf has scored, severity_score is the weighted sum of the
\* final values of the result's fields, the stream findings included.
C1_ScoreIsWeightedSum ==
    Scored =>
        result.severity_score =
            3 * B(result.has_javascript) + 2 * B(result.has_auto_action)
            + 2 * B(result.has_obj_stm) + Len(result.suspicious_names)
            + 2 * B(result.hidden_content) + B(result.large_file_size)
            + 2 * B(result.suspicious_metadata) + Len(result.unusual_objects)
            + 2 * result.object_statistics.js_objects
            + result.object_statistics.obj_stm_objects

\* a scored run in which analyze_streams added a finding and a script-bearing
\* dictionary was counted
C1_Witness ==
    /\ pc = "done"
    /\ \E k \in 1..Len(result.suspicious_names) :
          result.suspicious_names[k] = SuspiciousStreamFinding
    /\ result.object_statistics.js_objects >= 1
    /\ result.has_javascript

\* the objects that are dictionaries with a scripting key / an auto-execution key
ScriptDicts(d) ==
    {id \in DOMAIN d.objects :
        d.objects[id].kind = "Dictionary" /\ HasScriptKey(d.objects[id].dict)}
AutoDicts(d) ==
    {id \in DOMAIN d.objects :
        /\ d.objects[id].kind = "Dictionary"
        /\ has(d.objects[id].dict, "AA") \/ has(d.objects[id].dict, "OpenAction")}

\* one dictionary with a scripting key, another with an auto-execution key, and
\* no other indicator anywhere in the document
OnlyScriptAndAuto(d, c) ==
    /\ Cardinality(ScriptDicts(d)) = 1
    /\ Cardinality(AutoDicts(d)) = 1
    /\ ScriptDicts(d) \cap AutoDicts(d) = {}
    /\ \A id \in DOMAIN d.objects :
          LET o == d.objects[id] IN
          /\ \A k \in {"ObjStm", "OCG", "OCGs", "Type", "S"} : ~has(o.dict, k)
          /\ o.kind = "Stream" =>
                /\ ~HasScriptKey(o.dict)
                /\ ~has(o.dict, "AA") /\ ~has(o.dict, "OpenAction")
                /\ StreamReachesDecoder(o) /\ read_to_end(o.content).ok =>
                      ~is_match(RegexNew(NamesPattern(c)),
                                from_utf8_lossy(read_to_end(o.content).data))
          /\ o.kind \in {"Name", "String"} =>
                ~is_match(RegexNew(NamesPattern(c)), from_utf8_lossy(o.bytes))
    /\ ~has(d.trailer, "Info")
    /\ d.size <= c.file_size_threshold

\* C2 as stated: such a document scores 3 + 2 = 5, tier Medium.
C2_Original ==
    (pc = "done" /\ OnlyScriptAndAuto(doc, config)) =>
        (result.severity_score = 5 /\ report.severity = "Medium")

\* C2 as amended: such a document scores 3 + 2 + 2*1 = 7, tier High (the
\* script-bearing dictionary is also counted in js_objects, weight 2).
C2_ScoreIsSeven ==
    (pc = "done" /\ OnlyScriptAndAuto(doc, config)) =>
        (result.severity_score = 7 /\ report.severity = "High")

C2_Witness == pc = "done" /\ OnlyScriptAndAuto(doc, config)

\* C3: (a) a Stream with a scripting key, the Flate filter and content that
\* inflates to valid UTF-8 is listed by find_javascript_objects with its id
\* and exact text; (b) a Stream with a scripting key and another filter still
\* makes check_for_javascript true.
C3_Original ==
    /\ "find_javascript_objects" \in ran =>
          \A id \in DOMAIN doc.objects :
              LET o == doc.objects[id] IN
              (/\ o.kind = "Stream" /\ HasScriptKey(o.dict)
               /\ filter(o).ok /\ filter(o).name = FlateDecode
               /\ read_to_end(o.content).ok
               /\ from_utf8(read_to_end(o.content).data).ok)
              => \E k \in 1..Len(result.javascript_objects) :
                    result.javascript_objects[k] =
                        [id |-> id,
                         content |-> from_utf8(read_to_end(o.content).data).text]
    /\ "check_for_javascript" \in ran =>
          \A id \in DOMAIN doc.objects :
              LET o == doc.objects[id] IN
              (/\ o.kind = "Stream" /\ HasScriptKey(o.dict)
               /\ filter(o).ok /\ filter(o).name # FlateDecode)
              => result.has_javascript

\* C4: once analyze_multiple_pdfs is over, every file of the batch that loads
\* has its (file, AnalysisResult) pair in the returned collection.
C4_Original ==
    returned.status # "pending" =>
        \A i \in 1..Len(files) :
            files[i].loadable =>
                \E k \in 1..Len(returned.pairs) :
                    returned.pairs[k] =
                        [file |-> files[i].name,
                         result |-> analyze_pdf(files[i].doc, config)]

\* C5: no decompressed buffer ever exceeds the maximum output size.
C5_Original == peak <= MaxOutputSize

\* the string values of an Info dictionary held directly in the trailer
DirectInfoStrings(d) ==
    IF get(d.trailer, "Info").ok /\ get(d.trailer, "Info").val.kind = "Dictionary"
    THEN {get(d.trailer, "Info").val.dict[i].val.bytes :
            i \in {j \in 1..Len(get(d.trailer, "Info").val.dict) :
                     get(d.trailer, "Info").val.dict[j].val.kind = "String"}}
    ELSE {}

\* C6: with an empty pattern list nothing matches: no suspicious name, no
\* stream finding, and every Info string value counts as unrecognized.
C6_Original ==
    /\ (config.suspicious_patterns = <<>> /\ "check_for_suspicious_names" \in ran)
          => result.suspicious_names = <<>>
    /\ (config.suspicious_metadata_patterns = <<>> /\ "check_metadata" \in ran)
          => (result.suspicious_metadata <=> DirectInfoStrings(doc) # {})

\* the string values of the Info dictionary, held directly or referenced by id
InfoStrings(d) ==
    LET info == get(d.trailer, "Info")
        target == IF info.ok /\ info.val.kind = "Reference"
                       /\ info.val.ref \in DOMAIN d.objects
                  THEN d.objects[info.val.ref]
                  ELSE info.val
    IN  IF info.ok /\ target.kind = "Dictionary"
        THEN {target.dict[i].val.bytes :
                i \in {j \in 1..Len(target.dict) : target.dict[j].val.kind = "String"}}
        ELSE {}

\* C7: check_metadata is true exactly when the Info dictionary, direct or
\* referenced, has a string value the metadata alternation does not match.
C7_Original ==
    "check_metadata" \in ran =>
        (result.suspicious_metadata <=>
            \E b \in InfoStrings(doc) :
                ~is_match(RegexNew(MetaPattern(config)), from_utf8_lossy(b)))

NoObjects == DOMAIN doc.objects = {}

\* C8 as stated, taken on the documents whose size is not above the threshold:
\* a document with no objects, default configuration, has total_objects = 0,
\* scores 0, tier Low, verdict Likely benign, whatever the trailer contains.
C8_Original ==
    (/\ pc = "done" /\ NoObjects /\ config = DefaultConfig
     /\ doc.size <= config.file_size_threshold) =>
        /\ result.object_statistics.total_objects = 0
        /\ result.severity_score = 0
        /\ report.severity = "Low"
        /\ report.assessment = "Likely benign"

\* C8 as amended: total_objects = 0; the score is 2*[an Info dictionary held
\* directly in the trailer has a string value the metadata patterns do not
\* match] + 1*[size above the threshold]; the tier is Low unless both hold
\* (score 3, Medium), and the verdict is Likely benign exactly when neither does.
C8_EmptyDocument ==
    (pc = "done" /\ NoObjects /\ config = DefaultConfig) =>
        /\ result.object_statistics.total_objects = 0
        /\ report.severity = IF result.severity_score <= 2 THEN "Low" ELSE "Medium"
        /\ result.severity_score =
              2 * B(\E b \in DirectInfoStrings(doc) :
                       ~is_match(RegexNew(MetaPattern(config)), from_utf8_lossy(b)))
              + B(doc.size > 10 * 1024 * 1024)
        /\ report.assessment =
              IF result.severity_score = 0 THEN "Likely benign"
              ELSE "Potentially malicious"

\* an empty document whose trailer holds an Info dictionary, scored 0
C8_Witness ==
    /\ pc = "done" /\ NoObjects /\ config = DefaultConfig
    /\ DirectInfoStrings(doc) # {}
    /\ result.severity_score = 0
    /\ report.assessment = "Likely benign"

\* C9: a pattern that does not compile fails the run before the document is
\* loaded and before any detector has run.
C9_Original == pc = "panic" => (doc = EmptyDoc /\ ran = {})

\* C10: the detector steps are independent and order-insensitive: whatever
\* the order in which they ran before the scoring step, the scored result
\* (every field and the severity score) is the one analyze_pdf produces in
\* the order of the code.
C10_Original == pc = "done" => result = analyze_pdf(doc, config)

====
